---- MODULE Spec2Model ----
(***************************************************************************)
(* The gamification engine of the Pomodoro timer                           *)
(* (src/pomodoro_app/gamification.py, class GamificationSystem).           *)
(*                                                                         *)
(* State: the log file, the ledger file (gamification_data.json), the      *)
(* engine's in-memory ledger self.data, the current date, and the position *)
(* and locals of the public operation in progress.  Every read of the log  *)
(* file and every write of the ledger file is one step, so that a crash    *)
(* can fall between two writes of one call.                                *)
(*                                                                         *)
(* Dates are day numbers; day 0 is Monday 2024-01-01.                      *)
(*                                                                         *)
(* Spec is the engine between its callers, the writer of the log and a     *)
(* crash.  SpecXp, SpecCalc and SpecLoad run the calculations and the      *)
(* construction on their own inputs; SpecFail adds writes of the ledger    *)
(* file that fail, SpecKey a ledger file without the achievements, SpecConc*)
(* a writer that appends during a call, SpecTwo a second engine on the     *)
(* same ledger file.  SpecApp is the session-logging service of src/app.py.*)
(***************************************************************************)
EXTENDS Integers, Sequences, FiniteSets, TLC

VARIABLES
    log_file,      \* the log file: [exists, lines]
    data_file,     \* the ledger file: [state, content]
    data,          \* self.data, the in-memory ledger
    today,         \* datetime.now().date()
    pc,            \* position of the operation in progress, "idle" between calls
    frame,         \* the operation in progress and its locals
    result,        \* the value the last step returned to the caller, if it returned
    edits,         \* number of changes made to the log file since construction
    unlockedEver,  \* history: ids that check_achievements has appended and saved
    other_data,    \* self.data of a second engine on the same ledger file
    session_log,   \* the log file of the session-logging service: [exists, logs]
    posted         \* history: the sessions of the posts answered with 200

vars == <<log_file, data_file, data, today, pc, frame, result, edits, unlockedEver,
          other_data, session_log, posted>>

\* the state outside the engine and its files
aside == <<other_data, session_log, posted>>

----------------------------------------------------------------------------
(* Program constants *)

XP_WORK_COMPLETED == 25
XP_BREAK_COMPLETED == 5
FOCUS_MINUTES == 25
WINDOW_DAYS == 30
LAST_LEVEL_SPAN == 1000

LEVEL_THRESHOLDS == <<0, 100, 250, 500, 800, 1200, 1700, 2300, 3000, 3800, 4700>>

\* an order of the keys that has each stronger achievement before the weaker one
AchievementIds_StrongestFirst ==
    <<"total_100", "total_50", "first_pomodoro", "streak_7", "streak_3",
      "week_20", "week_10", "perfect_day">>

\* The keys of ACHIEVEMENTS in the order the dict is iterated.
AchievementIds ==
    <<"first_pomodoro", "streak_3", "streak_7", "week_10", "week_20",
      "total_50", "total_100", "perfect_day">>

DefinedIds == {AchievementIds[i] : i \in 1..Len(AchievementIds)}

----------------------------------------------------------------------------
(* Bounds of the model *)

Today0 == 33          \* the date at construction: Saturday 2024-02-03
MaxDays == 1          \* days the clock may advance
MaxEdits == 1         \* changes made to the log file after construction
MaxWorks == 230       \* completed work sessions of a log of SpecXp
MaxBreaks == 4        \* completed breaks of a log of SpecXp
MaxLines == 3         \* lines of a log of SpecCalc drawn line by line
StreakSpan == 6       \* days before Today0 on which a log of SpecCalc has work
MaxRate == 16         \* completed, and skipped, events of a rate log of SpecCalc
MaxLedgerIds == 1     \* achievements of a ledger file of SpecLoad
MaxPosts == 2         \* sessions the session-logging service appends in SpecApp

----------------------------------------------------------------------------
(* Calendar *)

Range(s) == {s[i] : i \in 1..Len(s)}

\* date.weekday(): Monday is 0
Weekday(d) == d % 7

\* first days of the months of 2024 and of January 2025, as day numbers
MonthStarts == <<0, 31, 60, 91, 121, 152, 182, 213, 244, 274, 305, 335, 366>>

\* today.replace(day=1)
MonthStart(d) ==
    LET starts == {MonthStarts[i] : i \in 1..Len(MonthStarts)}
    IN  CHOOSE m \in starts : m <= d /\ \A n \in starts : n <= d => n <= m

----------------------------------------------------------------------------
(* The log file and its reader.  The loops over the lines of the file and over
   the sessions run in order, by halves of the index range; the left half is
   evaluated before the right half starts. *)

\* One line of the log file.  blank: line.strip() is empty; nparts: the length
\* of line.split(' | '); ts_ok: strptime accepts parts[0]; date: the date of the
\* parsed timestamp; session_type, action: parts[1], parts[2].
Line(blank, nparts, ts_ok, date, session_type, action) ==
    [blank |-> blank, nparts |-> nparts, ts_ok |-> ts_ok, date |-> date,
     session_type |-> session_type, action |-> action]

Event(date, session_type, action) == Line(FALSE, 4, TRUE, date, session_type, action)

\* a body that keeps a line whose timestamp does not parse
ParseLine_AnyTimestamp(sessions, line) ==
    IF line.blank THEN sessions
    ELSE IF line.nparts = 4
         THEN Append(sessions, [timestamp |-> line.date,
                                session_type |-> line.session_type,
                                action |-> line.action])
         ELSE sessions

\* the body of the loop over the lines of the file
ParseLine(sessions, line) ==
    IF line.blank THEN sessions
    ELSE IF line.nparts = 4
         THEN IF line.ts_ok
              THEN Append(sessions, [timestamp |-> line.date,
                                     session_type |-> line.session_type,
                                     action |-> line.action])
              ELSE sessions
         ELSE sessions

\* for line in f, over the lines lo..hi
RECURSIVE ParseLines(_, _, _, _)
ParseLines(lines, lo, hi, sessions) ==
    IF lo > hi THEN sessions
    ELSE IF lo = hi THEN ParseLine(sessions, lines[lo])
    ELSE LET mid == (lo + hi) \div 2
             left == ParseLines(lines, lo, mid, sessions)
         IN  IF left = left THEN ParseLines(lines, mid + 1, hi, left) ELSE left

\* _parse_log_file
ParseLogFile(f) ==
    IF ~f.exists THEN <<>> ELSE ParseLines(f.lines, 1, Len(f.lines), <<>>)

----------------------------------------------------------------------------
(* XP and level *)

\* the XP one session adds to total_xp
SessionXp(session) ==
    IF session.action = "completed"
    THEN IF session.session_type = "work"
         THEN XP_WORK_COMPLETED
         ELSE XP_BREAK_COMPLETED
    ELSE 0

\* for session in sessions, over the sessions lo..hi
RECURSIVE SumXp(_, _, _, _)
SumXp(sessions, lo, hi, total_xp) ==
    IF lo > hi THEN total_xp
    ELSE IF lo = hi THEN total_xp + SessionXp(sessions[lo])
    ELSE LET mid == (lo + hi) \div 2
             left == SumXp(sessions, lo, mid, total_xp)
         IN  IF left = left THEN SumXp(sessions, mid + 1, hi, left) ELSE left

\* a level loop that needs more than the threshold
ReachesThreshold_Strict(total_xp, threshold) == total_xp > threshold

\* the test of the level loop
ReachesThreshold(total_xp, threshold) == total_xp >= threshold

RECURSIVE LevelLoop(_, _, _)
LevelLoop(total_xp, i, level) ==
    IF i > Len(LEVEL_THRESHOLDS) THEN level
    ELSE LevelLoop(total_xp, i + 1,
                   IF ReachesThreshold(total_xp, LEVEL_THRESHOLDS[i]) THEN i ELSE level)

\* level = 1; for i, threshold in enumerate(LEVEL_THRESHOLDS): ...
LevelOf(total_xp) == LevelLoop(total_xp, 1, 1)

\* a calculation without the span of the last level: at level 11 the next
\* threshold is the current one
XpAndLevel_NoSpan(sessions) ==
    LET total_xp == SumXp(sessions, 1, Len(sessions), 0)
        level == LevelOf(total_xp)
        current_level_threshold ==
            IF level <= Len(LEVEL_THRESHOLDS) THEN LEVEL_THRESHOLDS[level] ELSE 0
        next_level_threshold ==
            IF level < Len(LEVEL_THRESHOLDS) THEN LEVEL_THRESHOLDS[level + 1]
            ELSE current_level_threshold
        xp_in_level == total_xp - current_level_threshold
        xp_for_next_level == next_level_threshold - current_level_threshold
    IN  [total_xp |-> total_xp,
         level |-> level,
         xp_in_level |-> xp_in_level,
         xp_for_next_level |-> xp_for_next_level,
         progress_percentage |->
            IF xp_for_next_level > 0
            THEN [num |-> xp_in_level * 100, den |-> xp_for_next_level]
            ELSE [num |-> 100, den |-> 1]]

\* calculate_xp_and_level, on the parsed sessions
XpAndLevel(sessions) ==
    LET total_xp == SumXp(sessions, 1, Len(sessions), 0)
        level == LevelOf(total_xp)
        current_level_threshold ==
            IF level <= Len(LEVEL_THRESHOLDS) THEN LEVEL_THRESHOLDS[level] ELSE 0
        next_level_threshold ==
            IF level < Len(LEVEL_THRESHOLDS) THEN LEVEL_THRESHOLDS[level + 1]
            ELSE current_level_threshold + LAST_LEVEL_SPAN
        xp_in_level == total_xp - current_level_threshold
        xp_for_next_level == next_level_threshold - current_level_threshold
    IN  [total_xp |-> total_xp,
         level |-> level,
         xp_in_level |-> xp_in_level,
         xp_for_next_level |-> xp_for_next_level,
         \* xp_in_level / xp_for_next_level * 100, kept as a fraction
         progress_percentage |->
            IF xp_for_next_level > 0
            THEN [num |-> xp_in_level * 100, den |-> xp_for_next_level]
            ELSE [num |-> 100, den |-> 1]]

CalculateXpAndLevel(f) == XpAndLevel(ParseLogFile(f))

----------------------------------------------------------------------------
(* Streaks *)

\* the dates with a completed work session
CompletedDates(sessions) ==
    {sessions[i].timestamp : i \in {j \in 1..Len(sessions) :
        sessions[j].action = "completed" /\ sessions[j].session_type = "work"}}

RECURSIVE SortedDates(_)
SortedDates(dates) ==
    IF dates = {} THEN <<>>
    ELSE LET least == CHOOSE d \in dates : \A e \in dates : d <= e
         IN  <<least>> \o SortedDates(dates \ {least})

\* while check_date in completed_dates: current_streak += 1; check_date -= 1 day
RECURSIVE WalkBack(_, _, _)
WalkBack(completed_dates, check_date, current_streak) ==
    IF check_date \in completed_dates
    THEN WalkBack(completed_dates, check_date - 1, current_streak + 1)
    ELSE current_streak

\* a streak that is only ever counted from today
CurrentStreak_TodayOnly(completed_dates, now) ==
    IF now \in completed_dates
    THEN WalkBack(completed_dates, now, 0)
    ELSE 0

\* if today in completed_dates or yesterday in completed_dates: ...
CurrentStreak(completed_dates, now) ==
    IF now \in completed_dates \/ (now - 1) \in completed_dates
    THEN WalkBack(completed_dates,
                  IF now \in completed_dates THEN now ELSE now - 1, 0)
    ELSE 0

\* the smaller of the two
Max_Smaller(a, b) == IF a >= b THEN b ELSE a

\* max(longest_streak, temp_streak)
Max(a, b) == IF a >= b THEN a ELSE b

\* for i in range(1, len(sorted_dates)): ...
RECURSIVE LongestLoop(_, _, _, _)
LongestLoop(sorted_dates, i, longest_streak, temp_streak) ==
    IF i > Len(sorted_dates) THEN Max(longest_streak, temp_streak)
    ELSE IF sorted_dates[i] - sorted_dates[i - 1] = 1
         THEN LongestLoop(sorted_dates, i + 1, longest_streak, temp_streak + 1)
         ELSE LongestLoop(sorted_dates, i + 1, Max(longest_streak, temp_streak), 1)

\* a calculation whose run counter starts at 0
Streaks_RunFromZero(sessions, now) ==
    IF sessions = <<>> THEN [current_streak |-> 0, longest_streak |-> 0]
    ELSE LET completed_dates == CompletedDates(sessions)
         IN  IF completed_dates = {}
             THEN [current_streak |-> 0, longest_streak |-> 0]
             ELSE [current_streak |-> CurrentStreak(completed_dates, now),
                   longest_streak |->
                       LongestLoop(SortedDates(completed_dates), 2, 0, 0)]

\* calculate_streaks, on the parsed sessions
Streaks(sessions, now) ==
    IF sessions = <<>> THEN [current_streak |-> 0, longest_streak |-> 0]
    ELSE LET completed_dates == CompletedDates(sessions)
         IN  IF completed_dates = {}
             THEN [current_streak |-> 0, longest_streak |-> 0]
             ELSE [current_streak |-> CurrentStreak(completed_dates, now),
                   longest_streak |->
                       LongestLoop(SortedDates(completed_dates), 2, 0, 1)]

CalculateStreaks(f, now) == Streaks(ParseLogFile(f), now)

----------------------------------------------------------------------------
(* Statistics *)

InitialStats ==
    [total_completed |-> 0, total_skipped |-> 0, today_count |-> 0,
     this_week_count |-> 0, this_month_count |-> 0, total_focus_minutes |-> 0,
     completion_rate |-> 0, best_day_count |-> 0]

\* daily_counts[date_str] = daily_counts.get(date_str, 0) + 1
CountDay(daily_counts, d) ==
    IF d \in DOMAIN daily_counts
    THEN [daily_counts EXCEPT ![d] = @ + 1]
    ELSE daily_counts @@ (d :> 1)

\* a lookup whose default is 1
GetCount_DefaultOne(daily_counts, d) ==
    IF d \in DOMAIN daily_counts THEN daily_counts[d] ELSE 1

\* daily_counts.get(date_str, 0)
GetCount(daily_counts, d) ==
    IF d \in DOMAIN daily_counts THEN daily_counts[d] ELSE 0

Bump(b) == IF b THEN 1 ELSE 0

\* a body that counts a completed break under neither action
CountSession_WorkOnly(acc, session, now, week_start, month_start) ==
    LET stats == acc.stats
        session_date == session.timestamp
    IN  IF session.action = "completed"
        THEN [stats |->
                [stats EXCEPT
                    !.total_completed = @ + Bump(session.session_type = "work"),
                    !.total_focus_minutes =
                        @ + (IF session.session_type = "work" THEN FOCUS_MINUTES ELSE 0),
                    !.today_count = @ + Bump(session_date = now),
                    !.this_week_count = @ + Bump(session_date >= week_start),
                    !.this_month_count = @ + Bump(session_date >= month_start)],
              daily_counts |-> CountDay(acc.daily_counts, session_date)]
        ELSE [stats |-> [stats EXCEPT !.total_skipped = @ + 1],
              daily_counts |-> acc.daily_counts]

\* a body that adds focus time for every completed session
CountSession_FocusForAll(acc, session, now, week_start, month_start) ==
    LET stats == acc.stats
        session_date == session.timestamp
    IN  IF session.action = "completed"
        THEN [stats |->
                [stats EXCEPT
                    !.total_completed = @ + 1,
                    !.total_focus_minutes = @ + FOCUS_MINUTES,
                    !.today_count = @ + Bump(session_date = now),
                    !.this_week_count = @ + Bump(session_date >= week_start),
                    !.this_month_count = @ + Bump(session_date >= month_start)],
              daily_counts |-> CountDay(acc.daily_counts, session_date)]
        ELSE [stats |-> [stats EXCEPT !.total_skipped = @ + 1],
              daily_counts |-> acc.daily_counts]

\* the body of the loop over the sessions: acc is [stats, daily_counts]
CountSession(acc, session, now, week_start, month_start) ==
    LET stats == acc.stats
        session_date == session.timestamp
    IN  IF session.action = "completed"
        THEN [stats |->
                [stats EXCEPT
                    !.total_completed = @ + 1,
                    !.total_focus_minutes =
                        @ + (IF session.session_type = "work" THEN FOCUS_MINUTES ELSE 0),
                    !.today_count = @ + Bump(session_date = now),
                    !.this_week_count = @ + Bump(session_date >= week_start),
                    !.this_month_count = @ + Bump(session_date >= month_start)],
              daily_counts |-> CountDay(acc.daily_counts, session_date)]
        ELSE [stats |-> [stats EXCEPT !.total_skipped = @ + 1],
              daily_counts |-> acc.daily_counts]

\* for session in sessions, over the sessions lo..hi
RECURSIVE CountLoop(_, _, _, _, _, _, _)
CountLoop(sessions, lo, hi, acc, now, week_start, month_start) ==
    IF lo > hi THEN acc
    ELSE IF lo = hi
         THEN CountSession(acc, sessions[lo], now, week_start, month_start)
    ELSE LET mid == (lo + hi) \div 2
             left == CountLoop(sessions, lo, mid, acc, now, week_start, month_start)
         IN  IF left = left
             THEN CountLoop(sessions, mid + 1, hi, left, now, week_start, month_start)
             ELSE left

\* max(daily_counts.values()), 0 for an empty dict
BestDay(daily_counts) ==
    IF DOMAIN daily_counts = {} THEN 0
    ELSE LET d == CHOOSE d \in DOMAIN daily_counts :
                    \A e \in DOMAIN daily_counts : daily_counts[e] <= daily_counts[d]
         IN  daily_counts[d]

\* round(num / den, 1) for num >= 0 and den > 0, as a number of tenths: the
\* nearest tenth, and the even one of the two when the quotient is half way
RoundTenths(num, den) ==
    LET q == (10 * num) \div den
        r == (10 * num) % den
    IN  IF 2 * r > den \/ (2 * r = den /\ q % 2 = 1) THEN q + 1 ELSE q

\* a rate that is cut to the tenth below
CompletionRate_Truncated(stats) ==
    LET total_sessions == stats.total_completed + stats.total_skipped
    IN  IF total_sessions > 0
        THEN (1000 * stats.total_completed) \div total_sessions
        ELSE stats.completion_rate

\* total_sessions = ...; if total_sessions > 0: stats['completion_rate'] = ...
\* (a number of tenths: 750 is 75.0)
CompletionRate(stats) ==
    LET total_sessions == stats.total_completed + stats.total_skipped
    IN  IF total_sessions > 0
        THEN RoundTenths(stats.total_completed * 100, total_sessions)
        ELSE stats.completion_rate

\* calculate_statistics, on the parsed sessions (average_daily_sessions is not
\* part of this record)
Statistics(sessions, now) ==
    LET week_start == now - Weekday(now)
        month_start == MonthStart(now)
        acc == CountLoop(sessions, 1, Len(sessions),
                         [stats |-> InitialStats, daily_counts |-> <<>>],
                         now, week_start, month_start)
    IN  [acc.stats EXCEPT !.best_day_count = BestDay(acc.daily_counts),
                          !.completion_rate = CompletionRate(acc.stats)]
        @@ [daily_counts |->
                [d \in (now - (WINDOW_DAYS - 1))..now |-> GetCount(acc.daily_counts, d)]]

CalculateStatistics(f, now) == Statistics(ParseLogFile(f), now)

----------------------------------------------------------------------------
(* The ledger *)

\* the default data structure of _load_data
DefaultData ==
    [xp |-> 0, level |-> 1, achievements |-> <<>>, last_completion_date |-> "None",
     current_streak |-> 0, longest_streak |-> 0]

\* The ledger file: state is "missing" (no file), "corrupt" (json.load raises) or
\* "valid"; content is the document of a valid file.
MissingFile == [state |-> "missing", content |-> DefaultData]
CorruptFile == [state |-> "corrupt", content |-> DefaultData]
ValidFile(content) == [state |-> "valid", content |-> content]

\* a load that never reads the file
LoadData_AlwaysDefault(f) == DefaultData

\* _load_data
LoadData(f) ==
    IF f.state # "missing"
    THEN IF f.state = "valid" THEN f.content ELSE DefaultData
    ELSE DefaultData

\* a save that writes the last id only
SaveData_LastIdOnly(d) ==
    ValidFile([d EXCEPT !.achievements =
                IF @ = <<>> THEN @ ELSE SubSeq(@, Len(@), Len(@))])

\* a save that runs before the append: the last id is not in the document
SaveData_BeforeAppend(d) ==
    ValidFile([d EXCEPT !.achievements =
                IF @ = <<>> THEN @ ELSE SubSeq(@, 1, Len(@) - 1)])

\* _save_data, the write succeeding: json.dump(self.data, f)
SaveData(d) == ValidFile(d)

----------------------------------------------------------------------------
(* Achievements *)

\* conditions that need more than the threshold
Condition_Strict(id, stats) ==
    CASE id = "first_pomodoro" -> stats.total_completed > 1
      [] id = "streak_3"       -> stats.current_streak > 3
      [] id = "streak_7"       -> stats.current_streak > 7
      [] id = "week_10"        -> stats.this_week_count > 10
      [] id = "week_20"        -> stats.this_week_count > 20
      [] id = "total_50"       -> stats.total_completed > 50
      [] id = "total_100"      -> stats.total_completed > 100
      [] id = "perfect_day"    -> stats.best_day_count > 8

\* the 'condition' lambdas of ACHIEVEMENTS
Condition(id, stats) ==
    CASE id = "first_pomodoro" -> stats.total_completed >= 1
      [] id = "streak_3"       -> stats.current_streak >= 3
      [] id = "streak_7"       -> stats.current_streak >= 7
      [] id = "week_10"        -> stats.this_week_count >= 10
      [] id = "week_20"        -> stats.this_week_count >= 20
      [] id = "total_50"       -> stats.total_completed >= 50
      [] id = "total_100"      -> stats.total_completed >= 100
      [] id = "perfect_day"    -> stats.best_day_count >= 8

\* combined_stats = {**stats, **streaks}
Combined(stats, streaks) == streaks @@ stats

\* self.data has the key 'achievements'; self.data['achievements'] raises
\* KeyError when it has not
HasAchievements(d) == "achievements" \in DOMAIN d

\* achievement_id not in self.data['achievements']
NotInLedger(id, d) == id \notin Range(d.achievements)

\* an assignment in place of the append: the ids recorded before are dropped
AppendAchievement_Reset(d, id) == [d EXCEPT !.achievements = <<id>>]

\* self.data['achievements'].append(achievement_id)
AppendAchievement(d, id) == [d EXCEPT !.achievements = Append(@, id)]

\* the ids of a ledger
Ids(d) == Range(d.achievements)

\* one entry of the list check_achievements returns
UnlockedEntry(id) == [id |-> id, unlocked |-> TRUE]

\* an entry whose flag is the condition on the current log
AchievementEntry_Live(id, d) ==
    [id |-> id,
     unlocked |-> Condition(id, Combined(CalculateStatistics(log_file, today),
                                         CalculateStreaks(log_file, today)))]

\* one entry of the list get_all_achievements returns
AchievementEntry(id, d) == [id |-> id, unlocked |-> id \in Range(d.achievements)]

\* a list of the recorded achievements only
AllAchievements_OnlyUnlocked(d) ==
    [i \in 1..Len(d.achievements) |-> [id |-> d.achievements[i], unlocked |-> TRUE]]

\* the list get_all_achievements builds
AllAchievements(d) ==
    [i \in 1..Len(AchievementIds) |-> AchievementEntry(AchievementIds[i], d)]

----------------------------------------------------------------------------
(* award_xp *)

\* xp_gained of award_xp
XpGained(session_type) ==
    IF session_type = "work" THEN XP_WORK_COMPLETED
    ELSE IF session_type \in {"short_break", "long_break"} THEN XP_BREAK_COMPLETED
    ELSE 0

RECURSIVE PreviousLevelLoop(_, _, _)
PreviousLevelLoop(previous_xp, i, previous_level) ==
    IF i > Len(LEVEL_THRESHOLDS) THEN previous_level
    ELSE PreviousLevelLoop(previous_xp, i + 1,
            IF previous_xp >= LEVEL_THRESHOLDS[i] THEN i ELSE previous_level)

\* previous_level = 1; for i, threshold in enumerate(LEVEL_THRESHOLDS): ...
PreviousLevel(previous_xp) == PreviousLevelLoop(previous_xp, 1, 1)

\* a comparison with the level the ledger recorded
LeveledUp_FromLedger(current_data, xp_gained) ==
    current_data.level > data.level

\* a comparison that also holds for equal levels
LeveledUp_AtLeast(current_data, xp_gained) ==
    current_data.level >= PreviousLevel(current_data.total_xp - xp_gained)

\* leveled_up = current_level > previous_level
LeveledUp(current_data, xp_gained) ==
    current_data.level > PreviousLevel(current_data.total_xp - xp_gained)

\* the dict award_xp returns for an action other than 'completed'
AwardNothing == [xp_gained |-> 0, leveled_up |-> FALSE]

\* a dict without the achievements
AwardResult_NoAchievements(fr) ==
    [xp_gained |-> fr.xp_gained,
     total_xp |-> fr.xp.total_xp,
     level |-> fr.xp.level,
     leveled_up |-> fr.leveled_up]

\* the dict award_xp returns for a completed session
AwardResult(fr) ==
    [xp_gained |-> fr.xp_gained,
     total_xp |-> fr.xp.total_xp,
     level |-> fr.xp.level,
     leveled_up |-> fr.leveled_up,
     new_achievements |-> fr.unlocked]

----------------------------------------------------------------------------
(* The inputs: logs, ledger files, arguments *)

SessionTypes == {"work", "short_break", "long_break"}
Actions == {"completed", "skipped"}

WorkOn(d) == Event(d, "work", "completed")
BlankLine == Line(TRUE, 1, FALSE, 0, "", "")
CorruptLine == Line(FALSE, 1, FALSE, 0, "", "")
BadTimestampLine == Line(FALSE, 4, FALSE, 0, "work", "completed")

Rep(line, n) == [i \in 1..n |-> line]

\* n completed work sessions, perDay a day, from the date first on
Spread(first, perDay, n) == [i \in 1..n |-> WorkOn(first + ((i - 1) \div perDay))]

\* the logs the engine can be constructed on
BaseLogs ==
    { <<>>,
      Rep(WorkOn(Today0), 3) \o Rep(Event(Today0, "short_break", "completed"), 4),
      Rep(WorkOn(Today0), 7),
      Rep(WorkOn(Today0), 9),
      Rep(WorkOn(Today0), 20),
      Spread(Today0 - 26, 7, 49),
      Spread(Today0 - 25, 9, 100),
      <<WorkOn(Today0 - 2), WorkOn(Today0 - 1)>>,
      Spread(Today0 - 6, 1, 6),
      <<WorkOn(Today0 - 9), CorruptLine, Event(Today0, "short_break", "completed"),
        BlankLine, Event(Today0, "work", "skipped"), BadTimestampLine,
        Event(Today0, "meeting", "completed")>> }

\* the lines a writer can append on the date now
AppendableLines(now) ==
    {Event(now, t, "completed") : t \in SessionTypes}

\* the logs a rewrite of the log file can leave: a truncated log, one old session
EditedLogs == { <<>>, <<WorkOn(Today0 - 9)>> }

\* the ledger files the engine can be constructed on
StaleLedger ==
    [xp |-> 500, level |-> 4, achievements |-> <<"streak_7", "first_pomodoro">>,
     last_completion_date |-> "None", current_streak |-> 7, longest_streak |-> 7]

InitialLedgerFiles == {MissingFile, CorruptFile, ValidFile(StaleLedger)}

\* the log file of the session-logging service before the first post
NoSessionLog == [exists |-> FALSE, logs |-> <<>>]

----------------------------------------------------------------------------
(* The state machine *)

None == [none |-> TRUE]
NoResult == [op |-> "none"]

NewFrame(op, session_type, action) ==
    [op |-> op, session_type |-> session_type, action |-> action,
     xp_gained |-> 0, xp |-> None, leveled_up |-> FALSE,
     stats |-> None, streaks |-> None, i |-> 0, unlocked |-> <<>>]

IdleFrame == NewFrame("none", "", "")

Init ==
    /\ log_file \in {[exists |-> FALSE, lines |-> <<>>]}
                    \cup {[exists |-> TRUE, lines |-> lines] : lines \in BaseLogs}
    /\ data_file \in InitialLedgerFiles
    /\ data = LoadData(data_file)
    /\ today = Today0
    /\ pc = "idle"
    /\ frame = IdleFrame
    /\ result = NoResult
    /\ edits = 0
    /\ unlockedEver = {}
    /\ other_data = DefaultData
    /\ session_log = NoSessionLog
    /\ posted = <<>>

(* The environment: the writer of the log, the clock, a crash *)

AppendLine(line) ==
    /\ edits < MaxEdits
    /\ log_file' = [exists |-> TRUE, lines |-> Append(log_file.lines, line)]
    /\ edits' = edits + 1
    /\ result' = NoResult
    /\ UNCHANGED <<data_file, data, today, pc, frame, unlockedEver, aside>>

ReplaceLog(lines) ==
    /\ edits < MaxEdits
    /\ log_file' = [exists |-> TRUE, lines |-> lines]
    /\ edits' = edits + 1
    /\ result' = NoResult
    /\ UNCHANGED <<data_file, data, today, pc, frame, unlockedEver, aside>>

AdvanceDay ==
    /\ today < Today0 + MaxDays
    /\ today' = today + 1
    /\ result' = NoResult
    /\ UNCHANGED <<log_file, data_file, data, pc, frame, edits, unlockedEver, aside>>

\* The process dies and the engine is constructed again: __init__
Crash ==
    /\ data' = LoadData(data_file)
    /\ pc' = "idle"
    /\ frame' = IdleFrame
    /\ result' = NoResult
    /\ UNCHANGED <<log_file, data_file, today, edits, unlockedEver, aside>>

(* The reads of the log *)

\* calculate_xp_and_level, called by get_gamification_data
ReadXp ==
    /\ pc = "gg_xp"
    /\ frame' = [frame EXCEPT !.xp = CalculateXpAndLevel(log_file)]
    /\ pc' = "gg_streaks"
    /\ result' = NoResult
    /\ UNCHANGED <<log_file, data_file, data, today, edits, unlockedEver, aside>>

\* calculate_streaks, called by get_gamification_data
ReadStreaks ==
    /\ pc = "gg_streaks"
    /\ frame' = [frame EXCEPT !.streaks = CalculateStreaks(log_file, today)]
    /\ pc' = "gg_stats"
    /\ result' = NoResult
    /\ UNCHANGED <<log_file, data_file, data, today, edits, unlockedEver, aside>>

\* calculate_statistics, called by get_gamification_data
ReadStats ==
    /\ pc = "gg_stats"
    /\ frame' = [frame EXCEPT !.stats = CalculateStatistics(log_file, today)]
    /\ pc' = "ga_stats"
    /\ result' = NoResult
    /\ UNCHANGED <<log_file, data_file, data, today, edits, unlockedEver, aside>>


(* check_achievements, called by the request layer or by award_xp *)

CallCheckAchievements ==
    /\ pc = "idle"
    /\ frame' = NewFrame("check_achievements", "", "")
    /\ pc' = "ca_stats"
    /\ result' = NoResult
    /\ UNCHANGED <<log_file, data_file, data, today, edits, unlockedEver, aside>>

\* stats = self.calculate_statistics()
CheckReadStats ==
    /\ pc = "ca_stats"
    /\ frame' = [frame EXCEPT !.stats = CalculateStatistics(log_file, today)]
    /\ pc' = "ca_streaks"
    /\ result' = NoResult
    /\ UNCHANGED <<log_file, data_file, data, today, edits, unlockedEver, aside>>

\* streaks = self.calculate_streaks(); unlocked = []
CheckReadStreaks ==
    /\ pc = "ca_streaks"
    /\ frame' = [frame EXCEPT !.streaks = CalculateStreaks(log_file, today),
                              !.i = 1, !.unlocked = <<>>]
    /\ pc' = "ca_loop"
    /\ result' = NoResult
    /\ UNCHANGED <<log_file, data_file, data, today, edits, unlockedEver, aside>>

\* the list unlocked after the body of the loop has run for an achievement
\* whose condition holds
WithUnlocked(unlocked, id) == Append(unlocked, UnlockedEntry(id))

\* the position after the body of the loop has run for achievement i
AfterEntry(i) == IF i < Len(AchievementIds) THEN "ca_loop" ELSE "ca_ret"

\* The loop over ACHIEVEMENTS from achievement i on, up to the first id it has
\* to append to self.data['achievements'] (append TRUE, i its index) or to the
\* end of the loop (append FALSE)
\* (raised TRUE: the membership test of achievement i raised KeyError)
RECURSIVE RunLoop(_, _, _, _)
RunLoop(i, unlocked, combined_stats, d) ==
    IF i > Len(AchievementIds)
    THEN [i |-> i, unlocked |-> unlocked, append |-> FALSE, raised |-> FALSE]
    ELSE IF Condition(AchievementIds[i], combined_stats)
         THEN IF ~HasAchievements(d)
              THEN [i |-> i, unlocked |-> unlocked, append |-> FALSE, raised |-> TRUE]
              ELSE IF NotInLedger(AchievementIds[i], d)
                   THEN [i |-> i, unlocked |-> unlocked, append |-> TRUE,
                         raised |-> FALSE]
                   ELSE RunLoop(i + 1, WithUnlocked(unlocked, AchievementIds[i]),
                                combined_stats, d)
         ELSE RunLoop(i + 1, unlocked, combined_stats, d)

\* what the caller of an operation gets when the operation raises
Raised(op, error) == [op |-> op, raised |-> error]

\* The loop over ACHIEVEMENTS, from the position reached, up to the next write
\* of the ledger file: self.data['achievements'].append(achievement_id)
CheckAchievement ==
    /\ pc = "ca_loop"
    /\ LET run == RunLoop(frame.i, frame.unlocked,
                          Combined(frame.stats, frame.streaks), data)
       IN  IF run.raised
           THEN /\ result' = Raised(frame.op, "KeyError")
                /\ pc' = "idle"
                /\ frame' = IdleFrame
                /\ data' = data
           ELSE /\ frame' = [frame EXCEPT !.i = run.i, !.unlocked = run.unlocked]
                /\ IF run.append
                   THEN /\ data' = AppendAchievement(data, AchievementIds[run.i])
                        /\ pc' = "ca_save"
                   ELSE /\ pc' = "ca_ret"
                        /\ data' = data
                /\ result' = NoResult
    /\ UNCHANGED <<log_file, data_file, today, edits, unlockedEver, aside>>

\* self._save_data(), then unlocked.append(...)
CheckSave ==
    /\ pc = "ca_save"
    /\ data_file' = SaveData(data)
    /\ frame' = [frame EXCEPT !.unlocked = WithUnlocked(@, AchievementIds[frame.i]),
                              !.i = @ + 1]
    /\ pc' = AfterEntry(frame.i)
    /\ unlockedEver' = unlockedEver \cup {AchievementIds[frame.i]}
    /\ result' = NoResult
    /\ UNCHANGED <<log_file, data, today, edits, aside>>

\* return unlocked, to the request layer
CheckReturn ==
    /\ pc = "ca_ret"
    /\ frame.op = "check_achievements"
    /\ result' = [op |-> "check_achievements", ret |-> frame.unlocked]
    /\ pc' = "idle"
    /\ frame' = IdleFrame
    /\ UNCHANGED <<log_file, data_file, data, today, edits, unlockedEver, aside>>

(* get_all_achievements, called by the request layer or by get_gamification_data *)

CallGetAllAchievements ==
    /\ pc = "idle"
    /\ frame' = NewFrame("get_all_achievements", "", "")
    /\ pc' = "ga_stats"
    /\ result' = NoResult
    /\ UNCHANGED <<log_file, data_file, data, today, edits, unlockedEver, aside>>

\* stats = self.calculate_statistics(): read and never used
GetAllReadStats ==
    /\ pc = "ga_stats"
    /\ pc' = "ga_streaks"
    /\ result' = NoResult
    /\ UNCHANGED <<log_file, data_file, data, today, frame, edits, unlockedEver, aside>>

\* streaks = self.calculate_streaks(): read and never used
GetAllReadStreaks ==
    /\ pc = "ga_streaks"
    /\ pc' = "ga_build"
    /\ result' = NoResult
    /\ UNCHANGED <<log_file, data_file, data, today, frame, edits, unlockedEver, aside>>

\* the dict get_gamification_data returns
GamificationData(fr, achievements) ==
    [xp |-> fr.xp, streaks |-> fr.streaks, stats |-> fr.stats,
     achievements |-> achievements]

\* a get_all_achievements that saves the ledger before it returns
GetAllReturn_Saving ==
    /\ pc = "ga_build"
    /\ \/ /\ frame.op = "get_all_achievements"
          /\ result' = [op |-> "get_all_achievements", ret |-> AllAchievements(data)]
       \/ /\ frame.op = "get_gamification_data"
          /\ result' = [op |-> "get_gamification_data",
                        ret |-> GamificationData(frame, AllAchievements(data))]
    /\ data_file' = SaveData(data)
    /\ pc' = "idle"
    /\ frame' = IdleFrame
    /\ UNCHANGED <<log_file, data, today, edits, unlockedEver, aside>>

\* the loop of get_all_achievements and the return, to the request layer or to
\* get_gamification_data, which returns in turn
GetAllReturn ==
    /\ pc = "ga_build"
    /\ \/ /\ frame.op = "get_all_achievements"
          /\ result' = IF HasAchievements(data)
                       THEN [op |-> "get_all_achievements", ret |-> AllAchievements(data)]
                       ELSE Raised(frame.op, "KeyError")
       \/ /\ frame.op = "get_gamification_data"
          /\ result' = IF HasAchievements(data)
                       THEN [op |-> "get_gamification_data",
                             ret |-> GamificationData(frame, AllAchievements(data))]
                       ELSE Raised(frame.op, "KeyError")
    /\ pc' = "idle"
    /\ frame' = IdleFrame
    /\ UNCHANGED <<log_file, data_file, data, today, edits, unlockedEver, aside>>

(* get_gamification_data *)

CallGetGamificationData ==
    /\ pc = "idle"
    /\ frame' = NewFrame("get_gamification_data", "", "")
    /\ pc' = "gg_xp"
    /\ result' = NoResult
    /\ UNCHANGED <<log_file, data_file, data, today, edits, unlockedEver, aside>>

(* award_xp *)

\* if action != 'completed': return {'xp_gained': 0, 'leveled_up': False}
AwardNotCompleted(session_type, action) ==
    /\ pc = "idle"
    /\ action # "completed"
    /\ result' = [op |-> "award_xp", session_type |-> session_type,
                  action |-> action, ret |-> AwardNothing]
    /\ UNCHANGED <<log_file, data_file, data, today, pc, frame, edits, unlockedEver, aside>>

\* the call for a completed session, up to the first read of the log
CallAwardXp(session_type, action) ==
    /\ pc = "idle"
    /\ action = "completed"
    /\ frame' = [NewFrame("award_xp", session_type, action)
                    EXCEPT !.xp_gained = XpGained(session_type)]
    /\ pc' = "aw_xp"
    /\ result' = NoResult
    /\ UNCHANGED <<log_file, data_file, data, today, edits, unlockedEver, aside>>

\* current_data = self.calculate_xp_and_level() ... leveled_up = ...
AwardReadXp ==
    /\ pc = "aw_xp"
    /\ LET current_data == CalculateXpAndLevel(log_file)
       IN  frame' = [frame EXCEPT !.xp = current_data,
                                  !.leveled_up = LeveledUp(current_data, frame.xp_gained)]
    /\ pc' = "ca_stats"
    /\ result' = NoResult
    /\ UNCHANGED <<log_file, data_file, data, today, edits, unlockedEver, aside>>

\* new_achievements = self.check_achievements(); return {...}
AwardReturn ==
    /\ pc = "ca_ret"
    /\ frame.op = "award_xp"
    /\ result' = [op |-> "award_xp", session_type |-> frame.session_type,
                  action |-> frame.action, ret |-> AwardResult(frame)]
    /\ pc' = "idle"
    /\ frame' = IdleFrame
    /\ UNCHANGED <<log_file, data_file, data, today, edits, unlockedEver, aside>>

(* calculate_xp_and_level, called by the request layer *)

CallCalculateXpAndLevel ==
    /\ pc = "idle"
    /\ result' = [op |-> "calculate_xp_and_level", ret |-> CalculateXpAndLevel(log_file)]
    /\ UNCHANGED <<log_file, data_file, data, today, pc, frame, edits, unlockedEver, aside>>

----------------------------------------------------------------------------
(* The specification: a single-threaded engine; the log and the clock change
   between calls, a crash can fall anywhere *)

AwardTypes == SessionTypes \cup {"meeting"}

Environment ==
    /\ pc = "idle"
    /\ \/ \E line \in AppendableLines(today) : AppendLine(line)
       \/ \E lines \in EditedLogs : ReplaceLog(lines)
       \/ AdvanceDay

Engine ==
    \/ CallCheckAchievements \/ CheckReadStats \/ CheckReadStreaks
    \/ CheckAchievement \/ CheckSave \/ CheckReturn
    \/ CallGetAllAchievements \/ GetAllReadStats \/ GetAllReadStreaks \/ GetAllReturn
    \/ CallGetGamificationData \/ ReadXp \/ ReadStreaks \/ ReadStats
    \/ \E t \in AwardTypes, a \in Actions :
          AwardNotCompleted(t, a) \/ CallAwardXp(t, a)
    \/ AwardReadXp \/ AwardReturn

Next == Environment \/ Engine \/ Crash

Spec == Init /\ [][Next]_vars

----------------------------------------------------------------------------
(* The XP and level calculation on its own: every log of up to MaxWorks
   completed work sessions followed by up to MaxBreaks completed breaks *)

XpLog(works, breaks) ==
    Rep(WorkOn(Today0), works) \o Rep(Event(Today0, "short_break", "completed"), breaks)

InitXp ==
    /\ log_file \in {[exists |-> TRUE, lines |-> XpLog(w, b)] :
                        w \in 0..MaxWorks, b \in 0..MaxBreaks}
    /\ data_file = MissingFile
    /\ data = LoadData(data_file)
    /\ today = Today0
    /\ pc = "idle"
    /\ frame = IdleFrame
    /\ result = NoResult
    /\ edits = 0
    /\ unlockedEver = {}
    /\ other_data = DefaultData
    /\ session_log = NoSessionLog
    /\ posted = <<>>

NextXp == CallCalculateXpAndLevel

SpecXp == InitXp /\ [][NextXp]_vars

----------------------------------------------------------------------------
(* The calculations on their own: the log reader, calculate_xp_and_level,
   calculate_streaks and calculate_statistics, called on a log and a date *)

\* the lines of the logs drawn line by line: sessions today, yesterday and
\* tomorrow, at both ends of the window of daily_counts and before the first
\* of the month, and lines the reader drops
CalcLines ==
    { WorkOn(Today0), WorkOn(Today0 - 1), WorkOn(Today0 + 1),
      Event(Today0 - 3, "short_break", "completed"),
      Event(Today0, "work", "skipped"),
      Event(Today0 - (WINDOW_DAYS - 1), "long_break", "completed"),
      WorkOn(Today0 - WINDOW_DAYS),
      BlankLine, CorruptLine, BadTimestampLine }

\* every log of up to MaxLines of these lines
LineLogs == UNION {[1..n -> CalcLines] : n \in 0..MaxLines}

\* one completed work session on each date of dates from d to last, in date order
RECURSIVE WorksOn(_, _, _)
WorksOn(dates, d, last) ==
    IF d > last THEN <<>>
    ELSE (IF d \in dates THEN <<WorkOn(d)>> ELSE <<>>) \o WorksOn(dates, d + 1, last)

Reverse(s) == [i \in 1..Len(s) |-> s[Len(s) + 1 - i]]

StreakDays == (Today0 - StreakSpan)..(Today0 + 1)

\* for every set of dates, a log in date order and a log that has the dates
\* latest first and then once more in date order
StreakLogs ==
    UNION {LET works == WorksOn(dates, Today0 - StreakSpan, Today0 + 1)
           IN  {works, Reverse(works) \o works} : dates \in SUBSET StreakDays}

\* c completed and s skipped work sessions of today
RateLogs ==
    {Rep(WorkOn(Today0), c) \o Rep(Event(Today0, "work", "skipped"), s) :
        c \in 0..MaxRate, s \in 0..MaxRate}

CalcLogs == LineLogs \cup StreakLogs \cup RateLogs

InitCalc ==
    /\ log_file \in {[exists |-> FALSE, lines |-> <<>>]}
                    \cup {[exists |-> TRUE, lines |-> lines] : lines \in CalcLogs}
    /\ data_file = MissingFile
    /\ data = LoadData(data_file)
    /\ today \in Today0..(Today0 + MaxDays)
    /\ pc = "idle"
    /\ frame = IdleFrame
    /\ result = NoResult
    /\ edits = 0
    /\ unlockedEver = {}
    /\ other_data = DefaultData
    /\ session_log = NoSessionLog
    /\ posted = <<>>

\* _parse_log_file, called on its own
CallParseLogFile ==
    /\ pc = "idle"
    /\ result' = [op |-> "_parse_log_file", ret |-> ParseLogFile(log_file)]
    /\ UNCHANGED <<log_file, data_file, data, today, pc, frame, edits, unlockedEver, aside>>

\* calculate_streaks, called by the request layer
CallCalculateStreaks ==
    /\ pc = "idle"
    /\ result' = [op |-> "calculate_streaks", ret |-> CalculateStreaks(log_file, today)]
    /\ UNCHANGED <<log_file, data_file, data, today, pc, frame, edits, unlockedEver, aside>>

\* calculate_statistics, called by the request layer
CallCalculateStatistics ==
    /\ pc = "idle"
    /\ result' = [op |-> "calculate_statistics",
                  ret |-> CalculateStatistics(log_file, today)]
    /\ UNCHANGED <<log_file, data_file, data, today, pc, frame, edits, unlockedEver, aside>>

NextCalc ==
    \/ CallParseLogFile
    \/ CallCalculateXpAndLevel
    \/ CallCalculateStreaks
    \/ CallCalculateStatistics

SpecCalc == InitCalc /\ [][NextCalc]_vars

----------------------------------------------------------------------------
(* The construction of the engine on its own: the ledger file is missing,
   not JSON, or a ledger; it is replaced between two constructions *)

\* the ledgers a valid ledger file can hold
Ledgers ==
    {[xp |-> level.xp, level |-> level.level, achievements |-> achievements,
      last_completion_date |-> "None",
      current_streak |-> streak, longest_streak |-> streak] :
        level \in {[xp |-> 0, level |-> 1], [xp |-> 500, level |-> 4]},
        achievements \in UNION {[1..n -> DefinedIds] : n \in 0..MaxLedgerIds},
        streak \in {0, 7}}

LedgerFiles == {MissingFile, CorruptFile} \cup {ValidFile(d) : d \in Ledgers}

InitLoad ==
    /\ log_file = [exists |-> FALSE, lines |-> <<>>]
    /\ data_file \in LedgerFiles
    /\ data = LoadData(data_file)
    /\ today = Today0
    /\ pc = "idle"
    /\ frame = IdleFrame
    /\ result = NoResult
    /\ edits = 0
    /\ unlockedEver = {}
    /\ other_data = DefaultData
    /\ session_log = NoSessionLog
    /\ posted = <<>>

\* the ledger file is deleted, damaged or written by another process
ReplaceLedgerFile(f) ==
    /\ data_file' = f
    /\ result' = NoResult
    /\ UNCHANGED <<log_file, data, today, pc, frame, edits, unlockedEver, aside>>

\* __init__: self.data = self._load_data()
Construct ==
    /\ data' = LoadData(data_file)
    /\ result' = [op |-> "__init__", ret |-> LoadData(data_file)]
    /\ pc' = "idle"
    /\ frame' = IdleFrame
    /\ UNCHANGED <<log_file, data_file, today, edits, unlockedEver, aside>>

NextLoad ==
    \/ \E f \in LedgerFiles : ReplaceLedgerFile(f)
    \/ Construct

SpecLoad == InitLoad /\ [][NextLoad]_vars

----------------------------------------------------------------------------
(* The engine with writes of the ledger file that fail: _save_data catches
   the IOError, prints it and returns *)

\* The ledger file after a write that failed: open() failed and the file is as
\* it was, or open() has truncated the file and the dump did not complete
FailedWrite(f) == {f, CorruptFile}

\* a failure after which the appended id is taken back from self.data
CheckSaveFails_Rollback ==
    /\ pc = "ca_save"
    /\ data_file' \in FailedWrite(data_file)
    /\ data' = [data EXCEPT !.achievements = SubSeq(@, 1, Len(@) - 1)]
    /\ frame' = [frame EXCEPT !.unlocked = WithUnlocked(@, AchievementIds[frame.i]),
                              !.i = @ + 1]
    /\ pc' = AfterEntry(frame.i)
    /\ result' = NoResult
    /\ UNCHANGED <<log_file, today, edits, unlockedEver, aside>>

\* self._save_data() with a write that fails, then unlocked.append(...)
CheckSaveFails ==
    /\ pc = "ca_save"
    /\ data_file' \in FailedWrite(data_file)
    /\ frame' = [frame EXCEPT !.unlocked = WithUnlocked(@, AchievementIds[frame.i]),
                              !.i = @ + 1]
    /\ pc' = AfterEntry(frame.i)
    /\ result' = NoResult
    /\ UNCHANGED <<log_file, data, today, edits, unlockedEver, aside>>

FailLogs ==
    { <<>>, Rep(WorkOn(Today0), 3), Spread(Today0 - 2, 1, 3), Rep(WorkOn(Today0), 9) }

InitFail ==
    /\ log_file \in {[exists |-> FALSE, lines |-> <<>>]}
                    \cup {[exists |-> TRUE, lines |-> lines] : lines \in FailLogs}
    /\ data_file \in {MissingFile, ValidFile(StaleLedger)}
    /\ data = LoadData(data_file)
    /\ today = Today0
    /\ pc = "idle"
    /\ frame = IdleFrame
    /\ result = NoResult
    /\ edits = 0
    /\ unlockedEver = {}
    /\ other_data = DefaultData
    /\ session_log = NoSessionLog
    /\ posted = <<>>

NextFail ==
    \/ pc = "idle" /\ \E line \in AppendableLines(today) : AppendLine(line)
    \/ Engine
    \/ CheckSaveFails
    \/ Crash

SpecFail == InitFail /\ [][NextFail]_vars

----------------------------------------------------------------------------
(* The engine on a ledger file that is a JSON object without the key
   'achievements' *)

\* a ledger document without the achievements
KeylessLedger ==
    [xp |-> 0, level |-> 1, last_completion_date |-> "None",
     current_streak |-> 0, longest_streak |-> 0]

KeyLogs == { <<>>, <<Event(Today0, "work", "skipped")>>, Rep(WorkOn(Today0), 3) }

InitKey ==
    /\ log_file \in {[exists |-> FALSE, lines |-> <<>>]}
                    \cup {[exists |-> TRUE, lines |-> lines] : lines \in KeyLogs}
    /\ data_file \in {MissingFile, CorruptFile, ValidFile(KeylessLedger)}
    /\ data = LoadData(data_file)
    /\ today = Today0
    /\ pc = "idle"
    /\ frame = IdleFrame
    /\ result = NoResult
    /\ edits = 0
    /\ unlockedEver = {}
    /\ other_data = DefaultData
    /\ session_log = NoSessionLog
    /\ posted = <<>>

NextKey ==
    \/ pc = "idle" /\ \E line \in AppendableLines(today) : AppendLine(line)
    \/ Engine
    \/ Crash

SpecKey == InitKey /\ [][NextKey]_vars

----------------------------------------------------------------------------
(* The engine with a writer that appends to the log while a call runs: there
   is no lock on the log file, and a call reads the file several times *)

ConcLogs ==
    { <<>>, <<WorkOn(Today0 - 1)>>,
      Rep(WorkOn(Today0), 3) \o Rep(Event(Today0, "short_break", "completed"), 4) }

InitConc ==
    /\ log_file \in {[exists |-> FALSE, lines |-> <<>>]}
                    \cup {[exists |-> TRUE, lines |-> lines] : lines \in ConcLogs}
    /\ data_file = MissingFile
    /\ data = LoadData(data_file)
    /\ today = Today0
    /\ pc = "idle"
    /\ frame = IdleFrame
    /\ result = NoResult
    /\ edits = 0
    /\ unlockedEver = {}
    /\ other_data = DefaultData
    /\ session_log = NoSessionLog
    /\ posted = <<>>

NextConc ==
    \/ \E line \in AppendableLines(today) : AppendLine(line)
    \/ Engine

SpecConc == InitConc /\ [][NextConc]_vars

----------------------------------------------------------------------------
(* Two engines on one ledger file: each reads the file when it is
   constructed and writes its whole in-memory ledger on each unlock *)

\* the second engine is constructed: self.data = self._load_data()
OtherConstruct ==
    /\ other_data' = LoadData(data_file)
    /\ result' = NoResult
    /\ UNCHANGED <<log_file, data_file, data, today, pc, frame, edits, unlockedEver,
                   session_log, posted>>

\* check_achievements of the second engine, up to and including its next
\* append and write
OtherUnlock ==
    /\ LET run == RunLoop(1, <<>>,
                          Combined(CalculateStatistics(log_file, today),
                                   CalculateStreaks(log_file, today)),
                          other_data)
       IN  /\ run.append
           /\ other_data' = AppendAchievement(other_data, AchievementIds[run.i])
           /\ data_file' = SaveData(AppendAchievement(other_data, AchievementIds[run.i]))
    /\ result' = NoResult
    /\ UNCHANGED <<log_file, data, today, pc, frame, edits, unlockedEver,
                   session_log, posted>>

TwoLogs == { <<>>, Rep(WorkOn(Today0), 3), Spread(Today0 - 2, 1, 3) }

InitTwo ==
    /\ log_file \in {[exists |-> TRUE, lines |-> lines] : lines \in TwoLogs}
    /\ data_file \in {MissingFile, ValidFile(StaleLedger)}
    /\ data = LoadData(data_file)
    /\ today = Today0
    /\ pc = "idle"
    /\ frame = IdleFrame
    /\ result = NoResult
    /\ edits = 0
    /\ unlockedEver = {}
    /\ other_data = LoadData(data_file)
    /\ session_log = NoSessionLog
    /\ posted = <<>>

NextTwo ==
    \/ pc = "idle" /\ \E line \in AppendableLines(today) : AppendLine(line)
    \/ Engine
    \/ OtherConstruct
    \/ OtherUnlock

SpecTwo == InitTwo /\ [][NextTwo]_vars

----------------------------------------------------------------------------
(* The session-logging service (src/app.py): POST /log-session and
   GET /session-history on the JSON file LOG_FILE.  A request body is a JSON
   object, a function from its keys to their values. *)

\* the keys log_session requires
RequiredFields == <<"session_type", "start_time", "end_time", "status">>

\* a validation that is content with one of the keys
HasRequiredFields_AnyOne(session_data) ==
    \E i \in 1..Len(RequiredFields) : RequiredFields[i] \in DOMAIN session_data

\* all(key in session_data for key in [...])
HasRequiredFields(session_data) ==
    \A i \in 1..Len(RequiredFields) : RequiredFields[i] \in DOMAIN session_data

\* the JSON objects a client posts: any of the required keys and
\* duration_minutes, for a pomodoro or a short break
PostKeys == Range(RequiredFields) \cup {"duration_minutes"}

PostBody(keys, session_type) ==
    [key \in keys |-> IF key = "session_type" THEN session_type ELSE key]

PostBodies ==
    {PostBody(keys, session_type) :
        keys \in SUBSET PostKeys, session_type \in {"pomodoro", "shortBreak"}}

\* what the service answers: the status and the JSON body of the response
Response(op, request, status, body) ==
    [op |-> op, request |-> request, status |-> status, body |-> body]

\* logs = json.load(f) if the file exists, else []
LoadLogs(f) == IF f.exists THEN f.logs ELSE <<>>

\* POST /log-session
LogSession(session_data) ==
    /\ pc = "idle"
    /\ IF ~HasRequiredFields(session_data)
       THEN /\ result' = Response("log_session", session_data, 400,
                                  [error |-> "Missing required fields"])
            /\ UNCHANGED <<session_log, posted>>
       ELSE /\ Len(posted) < MaxPosts
            /\ session_log' = [exists |-> TRUE,
                               logs |-> Append(LoadLogs(session_log), session_data)]
            /\ result' = Response("log_session", session_data, 200,
                                  [success |-> TRUE])
            /\ posted' = Append(posted, session_data)
    /\ UNCHANGED <<log_file, data_file, data, today, pc, frame, edits, unlockedEver,
                   other_data>>

\* GET /session-history
SessionHistory ==
    /\ pc = "idle"
    /\ result' = Response("session_history", <<>>, 200, LoadLogs(session_log))
    /\ UNCHANGED <<log_file, data_file, data, today, pc, frame, edits, unlockedEver,
                   aside>>

InitApp ==
    /\ log_file = [exists |-> FALSE, lines |-> <<>>]
    /\ data_file = MissingFile
    /\ data = LoadData(data_file)
    /\ today = Today0
    /\ pc = "idle"
    /\ frame = IdleFrame
    /\ result = NoResult
    /\ edits = 0
    /\ unlockedEver = {}
    /\ other_data = DefaultData
    /\ session_log = NoSessionLog
    /\ posted = <<>>

NextApp ==
    \/ \E session_data \in PostBodies : LogSession(session_data)
    \/ SessionHistory

SpecApp == InitApp /\ [][NextApp]_vars

----------------------------------------------------------------------------
(* Properties *)

\* the ids an engine constructed on the ledger file would hold
FileIds == Ids(LoadData(data_file))

\* the conditions of the eight achievements, on statistics st and streaks sk
Holds(id, st, sk) ==
    \/ id = "first_pomodoro" /\ st.total_completed >= 1
    \/ id = "streak_3" /\ sk.current_streak >= 3
    \/ id = "streak_7" /\ sk.current_streak >= 7
    \/ id = "week_10" /\ st.this_week_count >= 10
    \/ id = "week_20" /\ st.this_week_count >= 20
    \/ id = "total_50" /\ st.total_completed >= 50
    \/ id = "total_100" /\ st.total_completed >= 100
    \/ id = "perfect_day" /\ st.best_day_count >= 8

\* the ids whose condition holds on the log and the date of the current state
TrueNow ==
    LET st == CalculateStatistics(log_file, today)
        sk == CalculateStreaks(log_file, today)
    IN  {id \in DefinedIds : Holds(id, st, sk)}

\* the entries of the ids of a set, in the order of the definitions, all unlocked
UnlockedList(ids) ==
    LET kept == SelectSeq(AchievementIds, LAMBDA id : id \in ids)
    IN  [i \in 1..Len(kept) |-> [id |-> kept[i], unlocked |-> TRUE]]

\* C1: the achievements of the ledger, in memory and in the file, are defined
\* ids; no call and no change of the log removes an id from the in-memory
\* ledger, and no step at all removes one from the file.
C1_LedgerGrowsWithinDefinedIds ==
    /\ [](Ids(data) \subseteq DefinedIds /\ FileIds \subseteq DefinedIds)
    /\ [][/\ FileIds \subseteq Ids(LoadData(data_file'))
          /\ (Environment \/ Engine) => Ids(data) \subseteq Ids(data')]_vars

\* C1 witness: ids were unlocked, the log was then truncated, and they are
\* still in the ledger
C1_Witness ==
    /\ pc = "idle"
    /\ edits >= 1
    /\ log_file.lines = <<>>
    /\ Cardinality(unlockedEver) >= 2
    /\ unlockedEver \subseteq Ids(data)
    /\ "streak_7" \in Ids(data)

\* C2: every id that check_achievements has unlocked is reported unlocked by
\* every later get_all_achievements, whatever the log has become.
C2_UnlockedStaysReported ==
    result.op = "get_all_achievements" =>
        \A id \in unlockedEver :
            \E i \in 1..Len(result.ret) :
                result.ret[i].id = id /\ result.ret[i].unlocked

\* C2 witness: first_pomodoro was unlocked, the log no longer has a completed
\* session, and get_all_achievements has returned
C2_Witness ==
    /\ result.op = "get_all_achievements"
    /\ "first_pomodoro" \in unlockedEver
    /\ "first_pomodoro" \notin TrueNow

\* C3: check_achievements returns the achievements whose condition holds on
\* the log and the date, each unlocked, in the order of the definitions; the
\* ledger has no part in the list.
C3_CheckReturnsAllTrue ==
    result.op = "check_achievements" => result.ret = UnlockedList(TrueNow)

\* C3 witness: a returned list with an id that this engine never had to save
\* (it was in the ledger file from the start) and an id it saved
C3_Witness ==
    /\ result.op = "check_achievements"
    /\ \E i, j \in 1..Len(result.ret) :
          /\ result.ret[i].id \notin unlockedEver
          /\ result.ret[i].id \in Ids(data)
          /\ result.ret[j].id \in unlockedEver

C5_AllEightByMembership ==
    result.op = "get_all_achievements" =>
        /\ Len(result.ret) = 8
        /\ \A i \in 1..Len(AchievementIds) :
              /\ result.ret[i].id = AchievementIds[i]
              /\ result.ret[i].unlocked = (AchievementIds[i] \in Ids(data))

\* C5 witness: an achievement whose condition holds on the log is reported
\* locked, no call having recorded it
C5_Witness ==
    /\ result.op = "get_all_achievements"
    /\ \E i \in 1..Len(result.ret) :
          result.ret[i].id \in TrueNow /\ ~result.ret[i].unlocked

\* the positions inside get_all_achievements and get_gamification_data
GetPositions == {"gg_xp", "gg_streaks", "gg_stats", "ga_stats", "ga_streaks", "ga_build"}

\* C6: no step into, inside or out of get_all_achievements and
\* get_gamification_data changes the in-memory ledger, the ledger file or the log.
C6_GettersChangeNothing ==
    [][(pc \in GetPositions \/ pc' \in GetPositions)
          => UNCHANGED <<data, data_file, log_file>>]_vars

\* C6 witness: get_gamification_data has returned on a log with a completed
\* session and there is still no ledger file
C6_Witness ==
    /\ result.op = "get_gamification_data"
    /\ data_file.state = "missing"
    /\ result.ret.stats.total_completed >= 1

AwardKeys == {"xp_gained", "total_xp", "level", "leveled_up", "new_achievements"}

\* C7 as stated: every result of award_xp has the five keys.
C7_EveryAwardHasFiveKeys ==
    result.op = "award_xp" => DOMAIN result.ret = AwardKeys

\* C7 amended: for a completed action the result has the five keys, its
\* new_achievements are those of check_achievements and their ids are in the
\* ledger, in memory and in the file; for any other action the result is
\* xp_gained = 0 and leveled_up = false, nothing else.
C7_AwardResultShape ==
    result.op = "award_xp" =>
        IF result.action = "completed"
        THEN /\ DOMAIN result.ret = AwardKeys
             /\ result.ret.new_achievements = UnlockedList(TrueNow)
             /\ TrueNow \subseteq Ids(data)
             /\ TrueNow \subseteq FileIds
        ELSE result.ret = [xp_gained |-> 0, leveled_up |-> FALSE]

\* C7 witness: award_xp for a completed session has returned an achievement
\* that was saved
C7_Witness ==
    /\ result.op = "award_xp"
    /\ result.action = "completed"
    /\ \E i \in 1..Len(result.ret.new_achievements) :
          result.ret.new_achievements[i].id \in unlockedEver

\* the log ends with a completed event of the given type that the reader accepts
EndsWithCompleted(f, session_type) ==
    /\ f.exists
    /\ f.lines # <<>>
    /\ f.lines[Len(f.lines)] =
          Event(f.lines[Len(f.lines)].date, session_type, "completed")

WithoutLast(f) == [f EXCEPT !.lines = SubSeq(@, 1, Len(@) - 1)]

\* C8: award_xp for the completed work or break event that ends the log
\* reports 25 or 5, the total and the level of the log, and leveled_up exactly
\* when the level of the log is above the level of the log without the event;
\* for a skipped action it reports 0 and false.
C8_AwardGainAndLevelUp ==
    result.op = "award_xp" =>
        IF result.action = "completed"
        THEN (result.session_type \in SessionTypes
                /\ EndsWithCompleted(log_file, result.session_type)) =>
                LET after == CalculateXpAndLevel(log_file)
                    before == CalculateXpAndLevel(WithoutLast(log_file))
                IN  /\ result.ret.xp_gained =
                          (IF result.session_type = "work" THEN 25 ELSE 5)
                    /\ result.ret.total_xp = after.total_xp
                    /\ result.ret.level = after.level
                    /\ result.ret.leveled_up = (after.level > before.level)
        ELSE result.ret.xp_gained = 0 /\ result.ret.leveled_up = FALSE

\* C8 witness: a break was appended, award_xp was called for it and reports
\* the step to level 2
C8_Witness ==
    /\ result.op = "award_xp"
    /\ result.action = "completed"
    /\ result.session_type = "long_break"
    /\ edits >= 1
    /\ EndsWithCompleted(log_file, "long_break")
    /\ result.ret.leveled_up
    /\ result.ret.level = 2

CountSessions(sessions, types) ==
    Cardinality({i \in 1..Len(sessions) :
        sessions[i].action = "completed" /\ sessions[i].session_type \in types})

\* C9 as stated: total_xp is 25 for each completed work session plus 5 for
\* each completed short_break or long_break, and nothing else.
C9_TotalXpOfWorkAndBreaks ==
    result.op = "get_gamification_data" =>
        LET sessions == ParseLogFile(log_file)
        IN  result.ret.xp.total_xp =
                25 * CountSessions(sessions, {"work"})
                + 5 * CountSessions(sessions, {"short_break", "long_break"})

\* C10: the level is the highest index whose threshold total_xp reaches, it is
\* between 1 and 11, and 0, 99 and 100 XP give levels 1, 1 and 2.
C10_LevelIsHighestThresholdReached ==
    /\ LevelOf(99) = 1
    /\ result.op = "calculate_xp_and_level" =>
          LET x == result.ret.total_xp
              level == result.ret.level
          IN  /\ level \in 1..11
              /\ x >= LEVEL_THRESHOLDS[level]
              /\ \A i \in 1..Len(LEVEL_THRESHOLDS) : x >= LEVEL_THRESHOLDS[i] => i <= level
              /\ x = 0 => level = 1 /\ result.ret.xp_in_level = 0
              /\ x = 100 => level = 2

\* C10 witness: a log of exactly 100 XP, at level 2
C10_Witness ==
    /\ result.op = "calculate_xp_and_level"
    /\ result.ret.total_xp = 100
    /\ result.ret.level = 2

\* C11: xp_in_level is total_xp less the threshold of the level, and
\* xp_for_next_level is the next threshold (the threshold plus 1000 at level 11)
\* less the threshold of the level; it is positive, and it is the divisor of
\* the progress computation.  50 XP give 50 of 100.
C11_ProgressWithinLevel ==
    result.op = "calculate_xp_and_level" =>
        LET r == result.ret
            threshold == LEVEL_THRESHOLDS[r.level]
            next_threshold ==
                IF r.level = 11 THEN threshold + 1000 ELSE LEVEL_THRESHOLDS[r.level + 1]
        IN  /\ r.xp_in_level = r.total_xp - threshold
            /\ r.xp_for_next_level = next_threshold - threshold
            /\ r.xp_for_next_level > 0
            /\ r.progress_percentage =
                  [num |-> r.xp_in_level * 100, den |-> r.xp_for_next_level]
            /\ r.total_xp = 50 => r.xp_in_level = 50 /\ r.xp_for_next_level = 100

\* C11 witness: a log at level 11, past the last threshold of the table
C11_Witness ==
    /\ result.op = "calculate_xp_and_level"
    /\ result.ret.level = 11
    /\ result.ret.xp_in_level > 0
    /\ result.ret.xp_for_next_level = 1000

\* a line the reader turns into an event
GoodLine(line) == ~line.blank /\ line.nparts = 4 /\ line.ts_ok

\* the lines of the log file, none if there is no file
LogLines == IF log_file.exists THEN log_file.lines ELSE <<>>

\* the lines of the log that are events, in file order
LogEvents == SelectSeq(LogLines, GoodLine)

\* the events of the log that are completed
CompletedEvents == SelectSeq(LogEvents, LAMBDA e : e.action = "completed")

\* the dates with at least one completed work event
WorkDates ==
    {LogEvents[i].date : i \in {j \in 1..Len(LogEvents) :
        LogEvents[j].action = "completed" /\ LogEvents[j].session_type = "work"}}

\* C12: current_streak is 0 if neither today nor yesterday has a completed
\* work event; otherwise it is the number of consecutive dates with such an
\* event counted backward from today, or from yesterday if today has none, up
\* to the first date without one.
C12_CurrentStreakFromTodayOrYesterday ==
    result.op = "calculate_streaks" =>
        LET streak == result.ret.current_streak
            anchor == IF today \in WorkDates THEN today ELSE today - 1
        IN  IF today \notin WorkDates /\ (today - 1) \notin WorkDates
            THEN streak = 0
            ELSE /\ streak >= 1
                 /\ \A j \in 0..(streak - 1) : (anchor - j) \in WorkDates
                 /\ (anchor - streak) \notin WorkDates

\* C12 witness: no work today, three days of work up to yesterday, and older
\* work behind a gap
C12_Witness ==
    /\ result.op = "calculate_streaks"
    /\ today \notin WorkDates
    /\ result.ret.current_streak = 3
    /\ Cardinality(WorkDates) >= 5

\* the dates a..b all have a completed work event
IsRun(a, b) == \A d \in a..b : d \in WorkDates

\* C13: longest_streak is the length of the longest run of consecutive dates
\* with a completed work event, whatever the order of the events in the log;
\* it is 0 when there is no such date.
C13_LongestRunOfDates ==
    result.op = "calculate_streaks" =>
        LET longest == result.ret.longest_streak
        IN  IF WorkDates = {} THEN longest = 0
            ELSE /\ longest >= 1
                 /\ \E a \in WorkDates : IsRun(a, a + longest - 1)
                 /\ \A a, b \in WorkDates : (a <= b /\ IsRun(a, b)) => b - a + 1 <= longest

\* C13 witness: runs of 4 and of 2 dates with a gap between them, in a log
\* that has the latest date first
C13_Witness ==
    /\ result.op = "calculate_streaks"
    /\ WorkDates = ((Today0 - 6)..(Today0 - 3)) \cup {Today0 - 1, Today0}
    /\ log_file.lines[1].date = Today0
    /\ result.ret.longest_streak = 4

\* C14: total_completed is the number of events of the log whose action is
\* completed, and total_completed + total_skipped is the number of events.
C14_CompletedPlusSkippedIsAllEvents ==
    result.op = "calculate_statistics" =>
        /\ result.ret.total_completed = Len(CompletedEvents)
        /\ result.ret.total_completed + result.ret.total_skipped = Len(LogEvents)

\* C14 witness: a log with a completed break, a skipped session and a line
\* the reader drops
C14_Witness ==
    /\ result.op = "calculate_statistics"
    /\ result.ret.total_skipped = 1
    /\ Len(LogEvents) < Len(LogLines)
    /\ \E i \in 1..Len(CompletedEvents) : CompletedEvents[i].session_type # "work"

\* the number of completed events of the log dated from first to last
CompletedWithin(first, last) ==
    Cardinality({i \in 1..Len(CompletedEvents) :
        first <= CompletedEvents[i].date /\ CompletedEvents[i].date <= last})

\* the Monday of the week of a date
MondayOf(d) == CHOOSE m \in (d - 6)..d : m % 7 = 0

\* C15 as stated: today_count, this_week_count and this_month_count are the
\* numbers of completed events dated today, from the Monday of the current
\* week to today, and from the first of the current month to today.
C15_CountsWithinPeriods ==
    result.op = "calculate_statistics" =>
        /\ result.ret.today_count = CompletedWithin(today, today)
        /\ result.ret.this_week_count = CompletedWithin(MondayOf(today), today)
        /\ result.ret.this_month_count = CompletedWithin(MonthStart(today), today)

\* C16: total_focus_minutes is 25 times the number of events that are
\* completed and of type work.
C16_FocusMinutesOfCompletedWork ==
    result.op = "calculate_statistics" =>
        result.ret.total_focus_minutes =
            25 * Cardinality({i \in 1..Len(CompletedEvents) :
                                CompletedEvents[i].session_type = "work"})

\* C16 witness: completed work next to a completed break and a skipped work
\* session, which add nothing
C16_Witness ==
    /\ result.op = "calculate_statistics"
    /\ result.ret.total_focus_minutes = 25
    /\ result.ret.total_completed = 2
    /\ result.ret.total_skipped = 1

\* C17: completion_rate, a number of tenths, is 0 for a log without events and
\* otherwise a tenth nearest to 100 * total_completed / (total_completed +
\* total_skipped); it lies between 0 and 100, and 3 completed with 1 skipped
\* give 75.0.
C17_CompletionRateIsRoundedShare ==
    result.op = "calculate_statistics" =>
        LET rate == result.ret.completion_rate
            completed == Len(CompletedEvents)
            total == Len(LogEvents)
            off == rate * total - 1000 * completed
        IN  /\ total = 0 => rate = 0
            /\ total > 0 => 2 * (IF off >= 0 THEN off ELSE -off) <= total
            /\ 0 <= rate /\ rate <= 1000
            /\ (completed = 3 /\ total = 4) => rate = 750

\* C17 witness: 2 of 3 events completed, a share that is rounded up to 66.7
C17_Witness ==
    /\ result.op = "calculate_statistics"
    /\ Len(CompletedEvents) = 2
    /\ Len(LogEvents) = 3
    /\ result.ret.completion_rate = 667

\* C18: daily_counts has exactly 30 keys, the 30 dates that end today, and
\* maps each to the number of completed events of the log on that date.
C18_DailyCountsOfThirtyDays ==
    result.op = "calculate_statistics" =>
        LET daily_counts == result.ret.daily_counts
        IN  /\ Cardinality(DOMAIN daily_counts) = 30
            /\ DOMAIN daily_counts = (today - 29)..today
            /\ \A d \in DOMAIN daily_counts : daily_counts[d] = CompletedWithin(d, d)

\* C18 witness: completed events on the first date of the window, on the date
\* before it and on the date after today
C18_Witness ==
    /\ result.op = "calculate_statistics"
    /\ result.ret.daily_counts[today - 29] = 1
    /\ CompletedWithin(today - 30, today - 30) = 1
    /\ CompletedWithin(today + 1, today + 1) = 1

\* the event the reader makes of a line
EventOf(line) ==
    [timestamp |-> line.date, session_type |-> line.session_type,
     action |-> line.action]

\* C19: the reader returns, in file order, the events of the lines that are
\* not blank, have 4 fields and a timestamp that parses, and nothing for any
\* other line; without a log file it returns the empty sequence, and then
\* total_xp is 0, the level 1, both streaks 0 and every count 0.
C19_ReaderKeepsWellFormedLines ==
    /\ result.op = "_parse_log_file" =>
          /\ Len(result.ret) = Len(LogEvents)
          /\ \A i \in 1..Len(LogEvents) : result.ret[i] = EventOf(LogEvents[i])
    /\ ~log_file.exists =>
          /\ result.op = "_parse_log_file" => result.ret = <<>>
          /\ result.op = "calculate_xp_and_level" =>
                result.ret.total_xp = 0 /\ result.ret.level = 1
          /\ result.op = "calculate_streaks" =>
                result.ret.current_streak = 0 /\ result.ret.longest_streak = 0
          /\ result.op = "calculate_statistics" =>
                /\ result.ret.total_completed = 0
                /\ result.ret.total_skipped = 0
                /\ result.ret.today_count = 0
                /\ result.ret.this_week_count = 0
                /\ result.ret.this_month_count = 0
                /\ result.ret.total_focus_minutes = 0
                /\ result.ret.best_day_count = 0
                /\ \A d \in DOMAIN result.ret.daily_counts :
                      result.ret.daily_counts[d] = 0

\* C19 witness: a line the reader drops between two events it returns
C19_Witness ==
    /\ result.op = "_parse_log_file"
    /\ Len(log_file.lines) = 3
    /\ ~GoodLine(log_file.lines[2])
    /\ Len(result.ret) = 2
    /\ result.ret[1] # result.ret[2]

\* C20: constructed on a ledger file that is missing or is not JSON, the
\* engine holds the default ledger (xp 0, level 1, no achievements, both
\* streaks 0); constructed on a file that holds a ledger, it holds that ledger.
C20_LoadDefaultsOrFileContent ==
    result.op = "__init__" =>
        /\ result.ret = data
        /\ data_file.state \in {"missing", "corrupt"} =>
              /\ data.xp = 0
              /\ data.level = 1
              /\ data.achievements = <<>>
              /\ data.current_streak = 0
              /\ data.longest_streak = 0
        /\ data_file.state = "valid" => data = data_file.content

\* C20 witness: the engine constructed on a file that is not JSON
C20_Witness ==
    /\ result.op = "__init__"
    /\ data_file.state = "corrupt"
    /\ data.achievements = <<>>

\* C27: current_streak is at most longest_streak, and neither is negative.
C27_CurrentWithinLongest ==
    result.op = "calculate_streaks" =>
        /\ 0 <= result.ret.current_streak
        /\ result.ret.current_streak <= result.ret.longest_streak

\* C27 witness: a run of 2 dates that ends today, shorter than an older run of 4
C27_Witness ==
    /\ result.op = "calculate_streaks"
    /\ today \in WorkDates
    /\ result.ret.current_streak = 2
    /\ result.ret.longest_streak = 4

\* C29 as stated: xp_in_level lies between 0 and xp_for_next_level, so the
\* progress is between 0 and 100 percent, at level 11 too.
C29_ProgressWithinHundred ==
    result.op = "calculate_xp_and_level" =>
        /\ 0 <= result.ret.xp_in_level
        /\ result.ret.xp_in_level <= result.ret.xp_for_next_level
        /\ 0 <= result.ret.progress_percentage.num
        /\ result.ret.progress_percentage.num <= 100 * result.ret.progress_percentage.den

\* C30 as stated: for award_xp called for the completed event that ends the
\* log, whatever its session_type, xp_gained is total_xp of the log less
\* total_xp of the log without the event.
C30_AwardGainIsLogGain ==
    (/\ result.op = "award_xp"
     /\ result.action = "completed"
     /\ EndsWithCompleted(log_file, result.session_type)) =>
        result.ret.xp_gained =
            CalculateXpAndLevel(log_file).total_xp
            - CalculateXpAndLevel(WithoutLast(log_file)).total_xp

\* the level of an amount of XP: the highest index of a threshold it reaches
LevelAt(x) ==
    IF x < 0 THEN 1
    ELSE CHOOSE i \in 1..Len(LEVEL_THRESHOLDS) :
            /\ x >= LEVEL_THRESHOLDS[i]
            /\ \A j \in 1..Len(LEVEL_THRESHOLDS) : x >= LEVEL_THRESHOLDS[j] => j <= i

\* C23: the xp, streaks and stats of get_gamification_data, and the xp_gained,
\* total_xp, level and leveled_up of award_xp, are those of the log, the date
\* and the arguments; the ledger, whatever it holds, has no part in them.
C23_ValuesFromLogAndDateOnly ==
    /\ result.op = "get_gamification_data" =>
          /\ result.ret.xp = CalculateXpAndLevel(log_file)
          /\ result.ret.streaks = CalculateStreaks(log_file, today)
          /\ result.ret.stats = CalculateStatistics(log_file, today)
    /\ (result.op = "award_xp" /\ result.action = "completed") =>
          LET xp == CalculateXpAndLevel(log_file)
              gained == IF result.session_type = "work" THEN 25
                        ELSE IF result.session_type \in {"short_break", "long_break"}
                             THEN 5 ELSE 0
          IN  /\ result.ret.xp_gained = gained
              /\ result.ret.total_xp = xp.total_xp
              /\ result.ret.level = xp.level
              /\ result.ret.leveled_up = (xp.level > LevelAt(xp.total_xp - gained))

\* C23 witness: award_xp reports a level-up to level 2 while the ledger
\* records level 4 and 500 XP
C23_Witness ==
    /\ result.op = "award_xp"
    /\ result.action = "completed"
    /\ result.ret.leveled_up
    /\ result.ret.level = 2
    /\ data.level = 4
    /\ data.xp = 500

\* the implications between the achievements hold in a set of ids
Closed(ids) ==
    /\ "total_100" \in ids => "total_50" \in ids
    /\ "total_50" \in ids => "first_pomodoro" \in ids
    /\ "streak_7" \in ids => "streak_3" \in ids
    /\ "week_20" \in ids => "week_10" \in ids

\* C28: when the ledger is empty at construction, in memory and in the file,
\* the ledger respects the implications between the achievements at every
\* later position of the engine and after every crash.
C28_LedgerClosedUnderImplications ==
    (Ids(data) = {} /\ FileIds = {}) => [](Closed(Ids(data)) /\ Closed(FileIds))

\* C28 witness: inside check_achievements, total_50 was appended and written
\* after first_pomodoro, total_100 is still to come, and the ledger holds
\* nothing but what this engine unlocked
C28_Witness ==
    /\ pc = "ca_loop"
    /\ Ids(data) = unlockedEver
    /\ "total_50" \in FileIds
    /\ "total_100" \notin FileIds
    /\ Condition("total_100", Combined(frame.stats, frame.streaks))

\* the ids of the entries of a list of achievements
EntryIds(entries) == {entries[i].id : i \in 1..Len(entries)}

\* C21: with writes of the ledger file that can fail, no call ends in an
\* error, check_achievements and award_xp return what they return when the
\* writes succeed (the achievements whose condition holds, the XP and level of
\* the log), and every id they return is in the in-memory ledger.
C21_FailedWriteKeepsResult ==
    /\ "raised" \notin DOMAIN result
    /\ result.op = "check_achievements" =>
          /\ result.ret = UnlockedList(TrueNow)
          /\ TrueNow \subseteq Ids(data)
    /\ (result.op = "award_xp" /\ result.action = "completed") =>
          /\ DOMAIN result.ret = AwardKeys
          /\ result.ret.new_achievements = UnlockedList(TrueNow)
          /\ TrueNow \subseteq Ids(data)
          /\ result.ret.total_xp = CalculateXpAndLevel(log_file).total_xp
          /\ result.ret.level = CalculateXpAndLevel(log_file).level

\* C21 witness: check_achievements has returned an id that is in the
\* in-memory ledger and not in the file; an engine constructed on the file
\* now reports it locked
C21_Witness ==
    /\ result.op = "check_achievements"
    /\ \E id \in EntryIds(result.ret) :
          /\ id \in Ids(data)
          /\ id \notin FileIds
          /\ \E i \in 1..Len(AchievementIds) :
                AllAchievements(LoadData(data_file))[i] = [id |-> id, unlocked |-> FALSE]

\* C22 as stated: no operation of the engine ends in an error, whatever the
\* log file and the ledger file hold.
C22_NoOperationRaises == "raised" \notin DOMAIN result

\* the log file cut after its first n lines
LogPrefix(n) == [exists |-> TRUE, lines |-> SubSeq(log_file.lines, 1, n)]

\* the ids whose condition holds on a log file and the current date
TrueOn(f) ==
    LET st == CalculateStatistics(f, today)
        sk == CalculateStreaks(f, today)
    IN  {id \in DefinedIds : Holds(id, st, sk)}

\* C24 as stated: with a writer that appends while the call runs, the result
\* of get_gamification_data, and of award_xp, is derived from one prefix of
\* the log.
C24_ResultOfOnePrefix ==
    /\ result.op = "get_gamification_data" =>
          \E n \in 0..Len(log_file.lines) :
              /\ result.ret.xp = CalculateXpAndLevel(LogPrefix(n))
              /\ result.ret.streaks = CalculateStreaks(LogPrefix(n), today)
              /\ result.ret.stats = CalculateStatistics(LogPrefix(n), today)
    /\ (result.op = "award_xp" /\ result.action = "completed") =>
          \E n \in 0..Len(log_file.lines) :
              /\ result.ret.total_xp = CalculateXpAndLevel(LogPrefix(n)).total_xp
              /\ result.ret.level = CalculateXpAndLevel(LogPrefix(n)).level
              /\ result.ret.new_achievements = UnlockedList(TrueOn(LogPrefix(n)))

\* the achievements an engine constructed on the ledger file would hold
FileAchievements == LoadData(data_file).achievements

LacksField(body) ==
    \E key \in {"session_type", "start_time", "end_time", "status"} :
        key \notin DOMAIN body

====
